---- MODULE Spec2Model ----
(***************************************************************************)
(* Model of todel's ID utilities (src/src/ids/mod.rs) and of the way       *)
(* File::create (src/src/models/files.rs) shares one IDGenerator behind a  *)
(* mutex.                                                                  *)
(*                                                                         *)
(* Machine integers wider than TLC's are little-endian byte sequences:     *)
(* a u32 is 4 bytes, a u64 is 8 bytes, a u128 is 16 bytes, b[1] being the  *)
(* least significant byte.  Casts, shifts, masks and ors are computed on   *)
(* that representation with the width of the Rust type.                    *)
(***************************************************************************)
EXTENDS Integers, Sequences, FiniteSets, TLC

VARIABLES
    clock,    \* what SystemTime::now() returns: [secs, ms] since the Unix epoch
    gens,     \* the IDGenerator values: [instance_id, sequence] per generator
    ctor,     \* how each generator was constructed: [seq0, by_new, derived, given]
    calls,    \* number of generate_id calls made on each generator
    recent,   \* the results of the latest generate_id calls, oldest first
    kept,     \* <<>> or <<r>>: one earlier result, retained for comparison
    wrapped,  \* the counter of kept's generator wrapped to 0 since kept
    panics,   \* number of generate_id calls that panicked at the clock read
    lock,     \* holder of the Mutex<IDGenerator> guard, 0 when free
    pc,       \* position of each File::create caller
    pre,      \* the sequence value each caller found on entry to generate_id
    derivations,  \* the outcomes of the latest generate_instance_id calls
    lost,     \* <<>> or <<c>>: the latest generate_id call that panicked
    epoch,    \* the lazy static ELUDRIS_EPOCH: [once, value, inits]
    seen,     \* what each caller last read through *ELUDRIS_EPOCH, <<>> if nothing
    conf,     \* the Conf the program holds
    origin,   \* how conf was made: [by, doc]
    edits,    \* number of field assignments made to conf since
    verdict   \* <<>> or the outcome of the latest validate or from_str call

epochVars == <<epoch, seen>>

confVars == <<conf, origin, edits, verdict>>

genVars == <<gens, ctor, calls, recent, kept, wrapped, panics, lock, pre, derivations,
             lost>>

vars == <<clock, gens, ctor, calls, recent, kept, wrapped, panics, lock, pc, pre,
          derivations, lost, epochVars, confVars>>

-----------------------------------------------------------------------------
(* Bounds of the model.                                                    *)

MaxCalls == 3        \* generate_id calls per behaviour of Spec
MaxWrapCalls == 258  \* generate_id calls per behaviour of SpecWrap, SpecConc
NumCallers == 2      \* concurrent File::create callers
Window == 3          \* how many of the latest results `recent` holds in Spec
WrapWindow == 1      \* the same in SpecWrap, SpecConc and SpecStart
MaxStartSteps == 3   \* derivations and generate_id calls per behaviour of SpecStart
MaxSkips == 2        \* generate_id calls that panic per behaviour of SpecSkip
MaxEdits == 2        \* field assignments to one Conf per behaviour of SpecConf

(* Program constants.                                                      *)

U8_MAX == 255                  \* u8::MAX
EPOCH_SECS == 1650000000       \* Duration::from_secs(1_650_000_000)
MILLIS_PER_SEC == 1000         \* Duration::as_millis
TIME_SHIFT == 24               \* generate_id: << 24
SEQ_SHIFT == 8                 \* generate_id: << 8
NAME_SHIFT == 8                \* generate_instance_id: << 8
DESCRIPTION_MAX == 2048        \* Conf::validate: description.len() > 2048
MESSAGE_LIMIT_MIN == 1024      \* Conf::validate: message_limit < 1024
message_limit_default == 2048  \* fn message_limit_default() -> usize
BYTES_PER_MB == 1000000        \* ByteUnit: 1 MB

Generators == {1, 2}
Callers == 1..NumCallers
SharedGen == 1       \* the generator File::create callers share

-----------------------------------------------------------------------------
(* Fixed-width unsigned integers as little-endian byte sequences.          *)

RECURSIVE BitOr(_, _)
BitOr(a, b) ==
    IF a = 0 THEN b
    ELSE IF b = 0 THEN a
    ELSE (IF a % 2 = 1 \/ b % 2 = 1 THEN 1 ELSE 0) + 2 * BitOr(a \div 2, b \div 2)

RECURSIVE BitAnd(_, _)
BitAnd(a, b) ==
    IF a = 0 \/ b = 0 THEN 0
    ELSE (IF a % 2 = 1 /\ b % 2 = 1 THEN 1 ELSE 0) + 2 * BitAnd(a \div 2, b \div 2)

RECURSIVE ToBytes(_, _)
ToBytes(n, w) == IF w = 0 THEN <<>> ELSE <<n % 256>> \o ToBytes(n \div 256, w - 1)

\* `x as uN`: truncation to, or zero extension to, w bytes
Cast(b, w) == [i \in 1..w |-> IF i <= Len(b) THEN b[i] ELSE 0]

\* a | b and a & b on integers of the same width
Or(a, b) == [i \in 1..Len(a) |-> BitOr(a[i], b[i])]

And(a, b) == [i \in 1..Len(a) |-> BitAnd(a[i], b[i])]

\* b << k within the width of b: the bits shifted out at the top are lost
Shl(b, k) ==
    LET q == k \div 8
        r == k % 8
    IN [i \in 1..Len(b) |->
          (IF i - q >= 1 THEN (b[i - q] * 2^r) % 256 ELSE 0)
        + (IF i - q - 1 >= 1 THEN b[i - q - 1] \div 2^(8 - r) ELSE 0)]

\* b >> k within the width of b
Shr(b, k) ==
    LET q == k \div 8
        r == k % 8
    IN [i \in 1..Len(b) |->
          (IF i + q <= Len(b) THEN b[i + q] \div 2^r ELSE 0)
        + (IF i + q + 1 <= Len(b) THEN (b[i + q + 1] * 2^(8 - r)) % 256 ELSE 0)]

\* b * m + c for small m and c, within the width of b
RECURSIVE MulAddFrom(_, _, _, _)
MulAddFrom(b, i, m, carry) ==
    IF i > Len(b) THEN <<>>
    ELSE LET v == b[i] * m + carry
         IN <<v % 256>> \o MulAddFrom(b, i + 1, m, v \div 256)

MulAdd(b, m, c) == MulAddFrom(b, 1, m, c)

\* unsigned comparison a < b of integers of the same width
RECURSIVE LessFrom(_, _, _)
LessFrom(a, b, i) ==
    IF i = 0 THEN FALSE
    ELSE IF a[i] # b[i] THEN a[i] < b[i]
    ELSE LessFrom(a, b, i - 1)

Less(a, b) == LessFrom(a, b, Len(a))

LessEq(a, b) == a = b \/ Less(a, b)

-----------------------------------------------------------------------------
(* Time.                                                                   *)

\* SystemTime::UNIX_EPOCH + Duration::from_secs(1_650_000_000)
ELUDRIS_EPOCH == [secs |-> EPOCH_SECS, ms |-> 0]

Earlier(t, u) == t.secs < u.secs \/ (t.secs = u.secs /\ t.ms < u.ms)

\* duration_since with a zero Duration in place of the Err
DurationSinceSaturating(t, earlier) ==
    IF Earlier(t, earlier) THEN [ok |-> TRUE, secs |-> 0, ms |-> 0]
    ELSE IF t.ms >= earlier.ms
         THEN [ok |-> TRUE, secs |-> t.secs - earlier.secs, ms |-> t.ms - earlier.ms]
         ELSE [ok |-> TRUE, secs |-> t.secs - earlier.secs - 1,
               ms |-> t.ms + MILLIS_PER_SEC - earlier.ms]

\* t.duration_since(earlier): Ok(Duration) or Err when t is before `earlier`
DurationSince(t, earlier) ==
    IF Earlier(t, earlier) THEN [ok |-> FALSE]
    ELSE IF t.ms >= earlier.ms
         THEN [ok |-> TRUE, secs |-> t.secs - earlier.secs, ms |-> t.ms - earlier.ms]
         ELSE [ok |-> TRUE, secs |-> t.secs - earlier.secs - 1,
               ms |-> t.ms + MILLIS_PER_SEC - earlier.ms]

\* Duration::as_millis(): u128 = secs * 1000 + subsecond millis
AsMillis(d) == MulAdd(ToBytes(d.secs, 16), MILLIS_PER_SEC, d.ms)

-----------------------------------------------------------------------------
(* src/src/ids/mod.rs                                                      *)

\* generate_instance_id with the mask 0xFFFFFF in place of 0xFFFF
generate_instance_idWideMask(instance_name, t) ==
    LET d == DurationSince(t, ELUDRIS_EPOCH)
    IN IF ~d.ok \/ Len(instance_name) = 0 THEN [ok |-> FALSE]
       ELSE [ok |-> TRUE,
             value |-> Or(Shl(And(Cast(AsMillis(d), 4), <<255, 255, 255, 0>>), NAME_SHIFT),
                          Cast(<<instance_name[1]>>, 4))]

\* generate_instance_id as a u64 of the unmasked millis, shifted like those
\* of generate_id
generate_instance_idUnmasked(instance_name, t) ==
    LET d == DurationSince(t, ELUDRIS_EPOCH)
    IN IF ~d.ok \/ Len(instance_name) = 0 THEN [ok |-> FALSE]
       ELSE [ok |-> TRUE,
             value |-> Or(Shl(Cast(AsMillis(d), 8), TIME_SHIFT),
                          Cast(<<instance_name[1]>>, 8))]

\* generate_instance_id from the whole seconds elapsed, the name unused
generate_instance_idSeconds(instance_name, t) ==
    LET d == DurationSince(t, ELUDRIS_EPOCH)
    IN IF ~d.ok \/ Len(instance_name) = 0 THEN [ok |-> FALSE]
       ELSE [ok |-> TRUE, value |-> Cast(ToBytes(d.secs, 6), 4)]

\* generate_instance_id with the name's byte or-ed in before the shift
generate_instance_idNameShifted(instance_name, t) ==
    LET d == DurationSince(t, ELUDRIS_EPOCH)
    IN IF ~d.ok \/ Len(instance_name) = 0 THEN [ok |-> FALSE]
       ELSE [ok |-> TRUE,
             value |-> Shl(Or(And(Cast(AsMillis(d), 4), <<255, 255, 0, 0>>),
                              Cast(<<instance_name[1]>>, 4)), NAME_SHIFT)]

\* generate_instance_id(instance_name) with SystemTime::now() = t.
\* [ok |-> FALSE] stands for the panic of either expect().
generate_instance_id(instance_name, t) ==
    LET d == DurationSince(t, ELUDRIS_EPOCH)
    IN IF ~d.ok \/ Len(instance_name) = 0 THEN [ok |-> FALSE]
       ELSE [ok |-> TRUE,
             value |-> Or(Shl(And(Cast(AsMillis(d), 4), <<255, 255, 0, 0>>), NAME_SHIFT),
                          Cast(<<instance_name[1]>>, 4))]

\* new() with the counter started at 1 instead of 0
newFromOne(instance_id) == [instance_id |-> instance_id, sequence |-> 1]

\* new() with the instance id cut to its low 24 bits
newMasked(instance_id) ==
    [instance_id |-> And(instance_id, <<255, 255, 255, 0>>), sequence |-> 0]

\* IDGenerator::new(instance_id)
new(instance_id) == [instance_id |-> instance_id, sequence |-> 0]

\* the store of the counter with the instance id cut to its low 24 bits
SetSequenceMasking(gen, s) ==
    [instance_id |-> And(gen.instance_id, <<255, 255, 255, 0>>), sequence |-> s]

\* self after `self.sequence = ...` of generate_id: no other field is written
SetSequence(gen, s) == [gen EXCEPT !.sequence = s]

\* generate_id with the clock read ahead of the update of the counter
AfterCallClockFirst(gen, s, ok) == IF ok THEN SetSequence(gen, s) ELSE gen

\* self after a call of generate_id that computed s for the counter: the
\* update comes first, so it stays when the clock read then panics
AfterCall(gen, s, ok) == SetSequence(gen, s)

\* the update with a saturating add in place of the wrap to 0
NextSequenceSaturating(sequence) == IF sequence = U8_MAX THEN U8_MAX ELSE sequence + 1

\* the update without the test for u8::MAX
NextSequenceUnchecked(sequence) == sequence + 1

\* the update with the wrap one step early
NextSequenceWrapEarly(sequence) == IF sequence >= U8_MAX - 1 THEN 0 ELSE sequence + 1

\* the update of self.sequence at the head of generate_id
NextSequence(sequence) == IF sequence = U8_MAX THEN 0 ELSE sequence + 1

\* the assembly with the millis shifted by 16 instead of 24
AssembleIdShift16(millis, instance_id, sequence) ==
    Or(Shl(Or(Shl(Cast(millis, 8), 16), Cast(instance_id, 8)), SEQ_SHIFT),
       Cast(<<sequence>>, 8))

\* the assembly with instance_id and sequence in each other's place
AssembleIdSwapped(millis, instance_id, sequence) ==
    Or(Shl(Or(Shl(Cast(millis, 8), TIME_SHIFT), Cast(<<sequence>>, 8)), SEQ_SHIFT),
       Cast(instance_id, 8))

\* the assembly without the instance id's bits 16..23
AssembleIdNarrowInstance(millis, instance_id, sequence) ==
    Or(Shl(Or(Shl(Cast(millis, 8), TIME_SHIFT), Cast(SubSeq(instance_id, 1, 2), 8)),
           SEQ_SHIFT),
       Cast(<<sequence>>, 8))

\* the value generate_id returns, from the millis elapsed (u128) and self
AssembleId(millis, instance_id, sequence) ==
    Or(Shl(Or(Shl(Cast(millis, 8), TIME_SHIFT), Cast(instance_id, 8)), SEQ_SHIFT),
       Cast(<<sequence>>, 8))

-----------------------------------------------------------------------------
(* src/src/conf/mod.rs                                                     *)

\* Option<T>: None is <<>>, Some(x) is <<x>>.
None == <<>>

Some(x) == <<x>>

\* Strings are the sequences of their bytes where the code measures them
\* (description), and atoms where it only hands them on or parses them.
Repeat(byte, n) == [i \in 1..n |-> byte]

RatelimitConf(reset_after, limit) == [reset_after |-> reset_after, limit |-> limit]

EffisRatelimitConf(reset_after, limit, file_size_limit) ==
    [reset_after |-> reset_after, limit |-> limit, file_size_limit |-> file_size_limit]

\* oprish_ratelimits.rs
info_default == RatelimitConf(5, 2)

message_create_default == RatelimitConf(5, 10)

ratelimits_default == RatelimitConf(5, 2)

OprishRatelimits_default ==
    [info |-> info_default, message_create |-> message_create_default,
     ratelimits |-> ratelimits_default]

\* effis_ratelimits.rs; the file size limits are the strings that mod.rs
\* parses and that its tests assign
assets_default == EffisRatelimitConf(60, 5, "30MB")

attachments_default == EffisRatelimitConf(180, 20, "500MB")

fetch_file_default == RatelimitConf(60, 30)

EffisRatelimits_default ==
    [assets |-> assets_default, attachments |-> attachments_default,
     fetch_file |-> fetch_file_default]

pandemonium_ratelimit_default == RatelimitConf(10, 5)

file_size_default == "20MB"

attachment_file_size_default == "100MB"

\* impl Default for OprishConf, PandemoniumConf, EffisConf
OprishConf_default ==
    [message_limit |-> message_limit_default, url |-> None,
     ratelimits |-> OprishRatelimits_default]

PandemoniumConf_default == [url |-> None, ratelimit |-> pandemonium_ratelimit_default]

EffisConf_default ==
    [file_size |-> file_size_default, url |-> None,
     attachment_file_size |-> attachment_file_size_default,
     ratelimits |-> EffisRatelimits_default]

\* str::parse::<ByteUnit>() on the size strings of the model
ParseByteUnit(size) ==
    CASE size = "0MB" -> [ok |-> TRUE, bytes |-> 0]
      [] size = "10MB" -> [ok |-> TRUE, bytes |-> 10 * BYTES_PER_MB]
      [] size = "20MB" -> [ok |-> TRUE, bytes |-> 20 * BYTES_PER_MB]
      [] size = "30MB" -> [ok |-> TRUE, bytes |-> 30 * BYTES_PER_MB]
      [] size = "100MB" -> [ok |-> TRUE, bytes |-> 100 * BYTES_PER_MB]
      [] size = "500MB" -> [ok |-> TRUE, bytes |-> 500 * BYTES_PER_MB]
      [] OTHER -> [ok |-> FALSE]

\* Url::parse(url).is_ok() on the url strings of the model
UrlParses(url) == url \in {"http://avalid.url", "wss://foo.bar"}

\* the description test with the bound itself refused
DescriptionInvalidAt2048(description) ==
    Len(description) = 0 \/ Len(description) >= DESCRIPTION_MAX

\* validate: description.is_empty() || description.len() > 2048
DescriptionInvalid(description) ==
    Len(description) = 0 \/ Len(description) > DESCRIPTION_MAX

\* the message limit test with 1024 itself refused
MessageLimitInvalidAt1024(message_limit) == message_limit <= MESSAGE_LIMIT_MIN

\* validate: self.oprish.message_limit < 1024
MessageLimitInvalid(message_limit) == message_limit < MESSAGE_LIMIT_MIN

\* the macro with && in place of ||
validate_ratelimit_limitsAll(buckets) ==
    \A i \in 1..Len(buckets) : buckets[i].limit = 0

\* validate_ratelimit_limits!: `$ratelimits.$bucket_name.limit == 0` joined by ||
validate_ratelimit_limits(buckets) ==
    \E i \in 1..Len(buckets) : buckets[i].limit = 0

\* validate_file_sizes!: the first size that does not parse or is 0 bails
validate_file_sizes(sizes) ==
    \E i \in 1..Len(sizes) :
       ~ParseByteUnit(sizes[i]).ok \/ ParseByteUnit(sizes[i]).bytes = 0

Ok == [ok |-> TRUE]

Err(message) == [ok |-> FALSE, err |-> message]

\* Conf::validate(&self), built with the feature "http" or without it
validate(self, http) ==
    IF self.description # None /\ DescriptionInvalid(self.description[1])
    THEN Err("Invalid description length, must be between 1 and 2048 characters long")
    ELSE IF MessageLimitInvalid(self.oprish.message_limit)
    THEN Err("Message limit can not be less than 1024 characters")
    ELSE IF \/ validate_ratelimit_limits(<<self.oprish.ratelimits.info,
                                           self.oprish.ratelimits.message_create,
                                           self.oprish.ratelimits.ratelimits>>)
            \/ validate_ratelimit_limits(<<self.pandemonium.ratelimit>>)
            \/ validate_ratelimit_limits(<<self.effis.ratelimits.assets,
                                           self.effis.ratelimits.attachments,
                                           self.effis.ratelimits.fetch_file>>)
    THEN Err("Ratelimit limit can't be 0")
    ELSE IF self.oprish.url # None /\ ~UrlParses(self.oprish.url[1])
    THEN Err("Invalid oprish url")
    ELSE IF self.pandemonium.url # None /\ ~UrlParses(self.pandemonium.url[1])
    THEN Err("Invalid pandemonium url")
    ELSE IF self.effis.url # None /\ ~UrlParses(self.effis.url[1])
    THEN Err("Invalid effis url")
    ELSE IF http /\ validate_file_sizes(<<self.effis.file_size,
                                         self.effis.attachment_file_size,
                                         self.effis.ratelimits.assets.file_size_limit,
                                         self.effis.ratelimits.attachments.file_size_limit>>)
    THEN Err("Invalid file size")
    ELSE Ok

\* Conf::from_name(instance_name)
from_name(instance_name, http) ==
    LET made == [instance_name |-> instance_name,
                 description |-> None,
                 oprish |-> OprishConf_default,
                 pandemonium |-> PandemoniumConf_default,
                 effis |-> EffisConf_default]
        checked == validate(made, http)
    IN IF checked.ok THEN [ok |-> TRUE, value |-> made] ELSE checked

\* a field of type Option<T> that reads an absent key as an empty string
OptionFieldEmpty(table, key) ==
    IF key \in DOMAIN table THEN Some(table[key]) ELSE Some(<<>>)

\* serde on a field of type Option<T>: an absent key is None
OptionField(table, key) ==
    IF key \in DOMAIN table THEN Some(table[key]) ELSE None

\* serde on a field with #[serde(default = ...)]
DefaultField(table, key, default) ==
    IF key \in DOMAIN table THEN table[key] ELSE default

\* #[derive(Deserialize)] of the ratelimit tables and of the three services
deserialize_OprishRatelimits(table) ==
    [info |-> DefaultField(table, "info", info_default),
     message_create |-> DefaultField(table, "message_create", message_create_default),
     ratelimits |-> DefaultField(table, "ratelimits", ratelimits_default)]

deserialize_EffisRatelimits(table) ==
    [assets |-> DefaultField(table, "assets", assets_default),
     attachments |-> DefaultField(table, "attachments", attachments_default),
     fetch_file |-> DefaultField(table, "fetch_file", fetch_file_default)]

deserialize_OprishConf(table) ==
    [message_limit |-> DefaultField(table, "message_limit", message_limit_default),
     url |-> OptionField(table, "url"),
     ratelimits |-> IF "ratelimits" \in DOMAIN table
                    THEN deserialize_OprishRatelimits(table.ratelimits)
                    ELSE OprishRatelimits_default]

deserialize_PandemoniumConf(table) ==
    [url |-> OptionField(table, "url"),
     ratelimit |-> DefaultField(table, "ratelimit", pandemonium_ratelimit_default)]

deserialize_EffisConf(table) ==
    [file_size |-> DefaultField(table, "file_size", file_size_default),
     url |-> OptionField(table, "url"),
     attachment_file_size |->
         DefaultField(table, "attachment_file_size", attachment_file_size_default),
     ratelimits |-> IF "ratelimits" \in DOMAIN table
                    THEN deserialize_EffisRatelimits(table.ratelimits)
                    ELSE EffisRatelimits_default]

\* toml::from_str::<Conf>(doc), the document given as its tables
from_str(doc) ==
    IF "instance_name" \notin DOMAIN doc THEN Err("missing field instance_name")
    ELSE [ok |-> TRUE,
          value |-> [instance_name |-> doc.instance_name,
                     description |-> OptionField(doc, "description"),
                     oprish |-> IF "oprish" \in DOMAIN doc
                                THEN deserialize_OprishConf(doc.oprish)
                                ELSE OprishConf_default,
                     pandemonium |-> IF "pandemonium" \in DOMAIN doc
                                     THEN deserialize_PandemoniumConf(doc.pandemonium)
                                     ELSE PandemoniumConf_default,
                     effis |-> IF "effis" \in DOMAIN doc
                               THEN deserialize_EffisConf(doc.effis)
                               ELSE EffisConf_default]]

\* The rate-limit buckets of a Conf, and a Conf with the limit of one set.
Buckets ==
    {"info", "message_create", "ratelimits", "pandemonium", "assets", "attachments",
     "fetch_file"}

Bucket(c, b) ==
    CASE b = "info" -> c.oprish.ratelimits.info
      [] b = "message_create" -> c.oprish.ratelimits.message_create
      [] b = "ratelimits" -> c.oprish.ratelimits.ratelimits
      [] b = "pandemonium" -> c.pandemonium.ratelimit
      [] b = "assets" -> c.effis.ratelimits.assets
      [] b = "attachments" -> c.effis.ratelimits.attachments
      [] b = "fetch_file" -> c.effis.ratelimits.fetch_file

WithLimit(c, b, v) ==
    CASE b = "info" -> [c EXCEPT !.oprish.ratelimits.info.limit = v]
      [] b = "message_create" -> [c EXCEPT !.oprish.ratelimits.message_create.limit = v]
      [] b = "ratelimits" -> [c EXCEPT !.oprish.ratelimits.ratelimits.limit = v]
      [] b = "pandemonium" -> [c EXCEPT !.pandemonium.ratelimit.limit = v]
      [] b = "assets" -> [c EXCEPT !.effis.ratelimits.assets.limit = v]
      [] b = "attachments" -> [c EXCEPT !.effis.ratelimits.attachments.limit = v]
      [] b = "fetch_file" -> [c EXCEPT !.effis.ratelimits.fetch_file.limit = v]

Services == {"oprish", "pandemonium", "effis"}

SizeFields == {"file_size", "attachment_file_size", "assets", "attachments"}

WithSize(c, f, size) ==
    CASE f = "file_size" -> [c EXCEPT !.effis.file_size = size]
      [] f = "attachment_file_size" -> [c EXCEPT !.effis.attachment_file_size = size]
      [] f = "assets" -> [c EXCEPT !.effis.ratelimits.assets.file_size_limit = size]
      [] f = "attachments" ->
            [c EXCEPT !.effis.ratelimits.attachments.file_size_limit = size]

-----------------------------------------------------------------------------
(* Inputs.                                                                 *)

At(s, m) == [secs |-> EPOCH_SECS + s, ms |-> m]

\* Clock readings: just before the epoch, at it, one millisecond and one
\* second after it, and around the instant the elapsed millis reach 2^32.
ClockValues ==
    {At(-1, 999), At(0, 0), At(0, 1), At(1, 0), At(4294967, 295), At(4294967, 296)}

\* Clock readings of the long runs: two instants of one elapsed second.
WrapClockValues == {At(0, 0), At(0, 1)}

\* The instance name of the tests, "WooChat", as its UTF-8 bytes.
WooChat == <<87, 111, 111, 67, 104, 97, 116>>

Names == {WooChat}

\* "EpicChat" of the example in the documentation of IDGenerator
EpicChat == <<69, 112, 105, 99, 67, 104, 97, 116>>

\* The names given to generate_instance_id at startup: those two, a name
\* whose first byte is not ASCII, and the empty name.
StartNames == {WooChat, EpicChat, <<195, 137>>, <<>>}

\* "TestInstance" of tests::default_conf
TestInstance == <<84, 101, 115, 116, 73, 110, 115, 116, 97, 110, 99, 101>>

\* The descriptions of tests::validate and try_deserialize: "", 2049 times
\* "h", "very cool", "The poggest place to chat"; and those of 1 and of 2048
\* bytes.
VeryCool == <<118, 101, 114, 121, 32, 99, 111, 111, 108>>

PoggestPlace ==
    <<84, 104, 101, 32, 112, 111, 103, 103, 101, 115, 116, 32, 112, 108, 97, 99, 101,
      32, 116, 111, 32, 99, 104, 97, 116>>

Descriptions ==
    {<<>>, Repeat(104, 1), VeryCool, Repeat(104, DESCRIPTION_MAX),
     Repeat(104, DESCRIPTION_MAX + 1)}

MessageLimits == {2, MESSAGE_LIMIT_MIN - 1, MESSAGE_LIMIT_MIN, message_limit_default}

Limits == {0, 1}

Urls == {"notavalidurl", "http://avalid.url"}

Sizes == {"not a valid size", "0MB", "10MB"}

\* TOML documents: the one of tests::default_conf, the one of
\* tests::try_deserialize, one with a partial [oprish] table, one without
\* instance_name.
DocDefault == [instance_name |-> TestInstance]

DocTry ==
    [instance_name |-> WooChat,
     description |-> PoggestPlace,
     oprish |-> [ratelimits |-> [info |-> RatelimitConf(10, 2)]],
     pandemonium |-> [url |-> "wss://foo.bar", ratelimit |-> RatelimitConf(20, 10)],
     effis |-> [file_size |-> "100MB",
                ratelimits |-> [attachments |-> EffisRatelimitConf(600, 20, "500MB")]]]

DocOprish == [instance_name |-> EpicChat, oprish |-> [message_limit |-> MESSAGE_LIMIT_MIN]]

DocNameless == [description |-> VeryCool]

Docs == {DocDefault, DocTry, DocOprish, DocNameless}

\* Instance ids handed to new() from elsewhere ("ideally fetched from a
\* database"): any u32, here two that are not below 2^24.
SuppliedIds == {<<69, 0, 0, 1>>, <<255, 255, 255, 255>>}

-----------------------------------------------------------------------------
(* Construction.                                                           *)

\* The generators a program can hold once constructed at clock reading t:
\* new() of a derived or of a supplied instance id, and the struct literal of
\* tests::id_generator_overflow with sequence u8::MAX - 1.
Constructions(t, names, literals, supplied) ==
    LET derived == {generate_instance_id(n, t) : n \in names}
        ids == {r.value : r \in {x \in derived : x.ok}}
    IN    {[gen |-> new(v), by_new |-> TRUE, derived |-> TRUE, given |-> v] : v \in ids}
     \cup {[gen |-> [instance_id |-> v, sequence |-> q], by_new |-> FALSE,
             derived |-> TRUE, given |-> v] : v \in ids, q \in literals}
     \cup {[gen |-> new(v), by_new |-> TRUE, derived |-> FALSE, given |-> v] :
              v \in supplied}

\* what a File::create caller holds of generate_id when it is not inside it
NoCall == [seq |-> 0, n |-> 0]

InitWith(start, names, literals, supplied) ==
    /\ clock \in start
    /\ \E c \in [Generators -> Constructions(clock, names, literals, supplied)] :
          /\ gens = [g \in Generators |-> c[g].gen]
          /\ ctor = [g \in Generators |->
                        [seq0 |-> IF c[g].by_new THEN 0 ELSE c[g].gen.sequence,
                         by_new |-> c[g].by_new, derived |-> c[g].derived,
                         given |-> c[g].given]]
    /\ calls = [g \in Generators |-> 0]
    /\ recent = <<>>
    /\ kept = <<>>
    /\ wrapped = FALSE
    /\ panics = 0
    /\ lock = 0
    /\ pc = [c \in Callers |-> "idle"]
    /\ pre = [c \in Callers |-> NoCall]
    /\ derivations = <<>>
    /\ lost = <<>>
    /\ epoch = [once |-> "incomplete", value |-> <<>>, inits |-> 0]
    /\ seen = [c \in Callers |-> <<>>]
    /\ conf = from_name(WooChat, TRUE).value
    /\ origin = [by |-> "from_name", doc |-> [instance_name |-> WooChat]]
    /\ edits = 0
    /\ verdict = <<>>

Init == InitWith(ClockValues, Names, {U8_MAX - 1}, SuppliedIds)

-----------------------------------------------------------------------------
(* Bookkeeping of results.                                                 *)

TotalCalls == calls[1] + calls[2]

\* A returned ID, with the call that returned it.
Result(g, n, before, after, t, id) ==
    [gen |-> g, n |-> n, pre |-> before, seq |-> after, at |-> t, id |-> id]

\* The caller receives r: it becomes the latest of the `window` results
\* remembered, and may be retained.
Returned(window, r) ==
    /\ recent' = IF Len(recent) < window THEN Append(recent, r)
                 ELSE Append(Tail(recent), r)
    /\ kept' \in IF kept = <<>> THEN {<<>>, <<r>>} ELSE {kept}

\* A call that panicked at the clock read: the n-th call on generator g, which
\* found the counter at `before`.
Panicked(g, n, before) == [gen |-> g, n |-> n, pre |-> before]

\* the counter of generator g now holds s
Counted(g, s) ==
    wrapped' = IF kept' # kept THEN FALSE
               ELSE wrapped \/ (kept # <<>> /\ kept[1].gen = g /\ s = 0)

-----------------------------------------------------------------------------
(* Actions.                                                                *)

\* The wall clock moves forward.
Tick(values) ==
    /\ \E t \in values : Earlier(clock, t) /\ clock' = t
    /\ UNCHANGED <<gens, ctor, calls, recent, kept, wrapped, panics, lock, pc, pre,
                   derivations, lost, epochVars, confVars>>

\* generator.generate_id() by the generator's single owner
GenerateId(g, limit, window) ==
    /\ TotalCalls < limit
    /\ LET s == NextSequence(gens[g].sequence)
           d == DurationSince(clock, ELUDRIS_EPOCH)
       IN /\ gens' = [gens EXCEPT ![g] = AfterCall(@, s, d.ok)]
          /\ calls' = [calls EXCEPT ![g] = @ + 1]
          /\ IF d.ok
             THEN /\ Returned(window, Result(g, calls[g] + 1, gens[g].sequence, s, clock,
                                             AssembleId(AsMillis(d), gens[g].instance_id, s)))
                  /\ panics' = panics
                  /\ lost' = lost
             ELSE /\ panics' = panics + 1
                  /\ lost' = <<Panicked(g, calls[g] + 1, gens[g].sequence)>>
                  /\ UNCHANGED <<recent, kept>>
          /\ Counted(g, s)
    /\ UNCHANGED <<clock, ctor, lock, pc, pre, derivations, epochVars, confVars>>

\* generate_instance_id(n) at startup, for one of the names
Derive(names, limit) ==
    /\ Len(derivations) + TotalCalls < limit
    /\ \E n \in names :
          LET out == generate_instance_id(n, clock)
          IN /\ derivations' = Append(derivations, [name |-> n, at |-> clock, out |-> out])
             /\ panics' = IF out.ok THEN panics ELSE panics + 1
    /\ UNCHANGED <<clock, gens, ctor, calls, recent, kept, wrapped, lock, pc, pre,
                   lost, epochVars, confVars>>

\* IDGenerator::new(v) of a derived or of a supplied instance id, for a
\* generator that has not been used yet
Construct(g, supplied) ==
    /\ calls[g] = 0
    /\ LET ids == {derivations[i].out.value :
                     i \in {j \in 1..Len(derivations) : derivations[j].out.ok}}
       IN \E v \in ids \cup supplied :
             /\ gens' = [gens EXCEPT ![g] = new(v)]
             /\ ctor' = [ctor EXCEPT ![g] = [seq0 |-> 0, by_new |-> TRUE,
                                             derived |-> v \in ids, given |-> v]]
    /\ UNCHANGED <<clock, calls, recent, kept, wrapped, panics, lock, pc, pre,
                   derivations, lost, epochVars, confVars>>

\* a guard that lives until the end of File::create
GuardHeld(c) == lock

\* the mutex once the guard of caller c, a temporary of the statement
\* `let id = gen.lock().await.generate_id();`, is dropped
GuardDropped(c) == IF lock = c THEN 0 ELSE lock

\* a lock that never makes a caller wait
LockAlwaysFree == TRUE

\* File::create, `gen.lock().await`: the caller obtains the guard
LockFree == lock = 0

CreateLock(c, limit) ==
    /\ pc[c] = "idle"
    /\ TotalCalls < limit
    /\ LockFree
    /\ lock' = c
    /\ pc' = [pc EXCEPT ![c] = "locked"]
    /\ UNCHANGED <<clock, gens, ctor, calls, recent, kept, wrapped, panics, pre,
                   derivations, lost, epochVars, confVars>>

\* File::create, inside generate_id: the update of self.sequence
CreateSequence(c) ==
    /\ pc[c] = "locked"
    /\ LET g == SharedGen
           s == NextSequence(gens[g].sequence)
       IN /\ gens' = [gens EXCEPT ![g] = SetSequence(@, s)]
          /\ calls' = [calls EXCEPT ![g] = @ + 1]
          /\ pre' = [pre EXCEPT ![c] = [seq |-> gens[g].sequence, n |-> calls[g] + 1]]
          /\ UNCHANGED <<recent, kept>>
          /\ Counted(g, s)
    /\ pc' = [pc EXCEPT ![c] = "sequenced"]
    /\ UNCHANGED <<clock, ctor, panics, lock, derivations, lost, epochVars, confVars>>

\* File::create, inside generate_id: the clock read and the assembly of the
\* result from self; the guard is dropped at the end of the statement, also
\* when the clock read panics and unwinds the task.
CreateStamp(c, window) ==
    /\ pc[c] = "sequenced"
    /\ LET g == SharedGen
           d == DurationSince(clock, ELUDRIS_EPOCH)
       IN IF d.ok
          THEN /\ Returned(window, Result(g, pre[c].n, pre[c].seq, gens[g].sequence, clock,
                                          AssembleId(AsMillis(d), gens[g].instance_id,
                                                     gens[g].sequence)))
               /\ wrapped' = IF kept' # kept THEN FALSE ELSE wrapped
               /\ panics' = panics
               /\ lost' = lost
               /\ pc' = [pc EXCEPT ![c] = "io"]
          ELSE /\ panics' = panics + 1
               /\ lost' = <<Panicked(g, pre[c].n, pre[c].seq)>>
               /\ pc' = [pc EXCEPT ![c] = "idle"]
               /\ UNCHANGED <<recent, kept, wrapped>>
    /\ lock' = GuardDropped(c)
    /\ pre' = [pre EXCEPT ![c] = NoCall]
    /\ UNCHANGED <<clock, gens, ctor, calls, derivations, epochVars, confVars>>

\* File::create after the ID is there: the upload is persisted and recorded
CreateIo(c) ==
    /\ pc[c] = "io"
    /\ pc' = [pc EXCEPT ![c] = "idle"]
    /\ UNCHANGED <<clock, gens, ctor, calls, recent, kept, wrapped, panics, lock, pre,
                   derivations, lost, epochVars, confVars>>

Next ==
    \/ Tick(ClockValues)
    \/ \E g \in Generators : GenerateId(g, MaxCalls, Window)

Spec == Init /\ [][Next]_vars

\* Long runs of one generator, past the wraparound of its counter.
InitWrap ==
    /\ InitWith({At(0, 0)}, Names, {U8_MAX - 1}, {<<69, 0, 0, 1>>})
    /\ gens[2] = gens[1]

NextWrap ==
    \/ Tick(WrapClockValues)
    \/ GenerateId(SharedGen, MaxWrapCalls, WrapWindow)

SpecWrap == InitWrap /\ [][NextWrap]_vars

\* Concurrent File::create callers on the shared generator, in a burst that
\* falls within one reading of the clock.
InitConc == InitWith({At(0, 0)}, Names, {}, {})

NextConc ==
    \E c \in Callers :
       \/ CreateLock(c, MaxWrapCalls)
       \/ CreateSequence(c)
       \/ CreateStamp(c, WrapWindow)
       \/ CreateIo(c)

SpecConc == InitConc /\ [][NextConc]_vars

\* The startup of a program: instance ids are derived, the generator is
\* constructed, IDs are generated.
InitStart == InitWith(ClockValues, {}, {}, {<<69, 0, 0, 1>>})

NextStart ==
    \/ Tick(ClockValues)
    \/ Derive(StartNames, MaxStartSteps)
    \/ Construct(SharedGen, SuppliedIds)
    \/ GenerateId(SharedGen, MaxStartSteps - Len(derivations), WrapWindow)

SpecStart == InitStart /\ [][NextStart]_vars

\* A field of conf is assigned, as the tests do (all fields are pub).
Edited(c, limit) ==
    /\ edits < limit
    /\ conf' = c
    /\ edits' = edits + 1
    /\ verdict' = <<>>
    /\ UNCHANGED <<clock, genVars, pc, epochVars, origin>>

\* conf.description = ...
SetDescription(limit) ==
    \E d \in {None} \cup {Some(x) : x \in Descriptions} :
       Edited([conf EXCEPT !.description = d], limit)

\* conf.oprish.message_limit = ...
SetMessageLimit(limit) ==
    \E m \in MessageLimits : Edited([conf EXCEPT !.oprish.message_limit = m], limit)

\* $limit.limit = ... of test_limit!
SetLimit(limit) ==
    \E b \in Buckets, v \in Limits : Edited(WithLimit(conf, b, v), limit)

\* $conf.$service.url = ... of test_urls!
SetUrl(limit) ==
    \E u \in {None} \cup {Some(x) : x \in Urls} :
       \/ Edited([conf EXCEPT !.oprish.url = u], limit)
       \/ Edited([conf EXCEPT !.pandemonium.url = u], limit)
       \/ Edited([conf EXCEPT !.effis.url = u], limit)

\* $size = ... of test_file_sizes!
SetFileSize(limit) ==
    \E f \in SizeFields, size \in Sizes : Edited(WithSize(conf, f, size), limit)

\* conf.validate(), in a build with the feature "http" or without it
Validate ==
    /\ \E http \in BOOLEAN :
          verdict' = <<[call |-> "validate", http |-> http,
                        result |-> validate(conf, http)]>>
    /\ UNCHANGED <<clock, genVars, pc, epochVars, conf, origin, edits>>

\* let conf = Conf::from_name(name)?
FromName(names) ==
    /\ \E n \in names, http \in BOOLEAN :
          LET made == from_name(n, http)
          IN /\ made.ok
             /\ conf' = made.value
             /\ origin' = [by |-> "from_name", doc |-> [instance_name |-> n]]
    /\ edits' = 0
    /\ verdict' = <<>>
    /\ UNCHANGED <<clock, genVars, pc, epochVars>>

\* let conf: Conf = toml::from_str(doc): a Conf, or the error of serde
Deserialize(docs) ==
    /\ \E doc \in docs :
          LET parsed == from_str(doc)
          IN IF parsed.ok
             THEN /\ conf' = parsed.value
                  /\ origin' = [by |-> "from_str", doc |-> doc]
                  /\ edits' = 0
                  /\ verdict' = <<>>
             ELSE /\ verdict' = <<[call |-> "from_str", http |-> FALSE,
                                   result |-> parsed]>>
                  /\ UNCHANGED <<conf, origin, edits>>
    /\ UNCHANGED <<clock, genVars, pc, epochVars>>

\* A Conf is made, from a name or from a document, changed and validated.
InitConf == InitWith({At(0, 0)}, {}, {}, {<<69, 0, 0, 1>>})

NextConf ==
    \/ FromName({WooChat, TestInstance})
    \/ Deserialize(Docs)
    \/ SetDescription(MaxEdits)
    \/ SetMessageLimit(MaxEdits)
    \/ SetLimit(MaxEdits)
    \/ SetUrl(MaxEdits)
    \/ SetFileSize(MaxEdits)
    \/ Validate

SpecConf == InitConf /\ [][NextConf]_vars

\* lazy_static! { pub static ref ELUDRIS_EPOCH: SystemTime = ...; }
\* A caller evaluates *ELUDRIS_EPOCH (in generate_instance_id or generate_id):
\* the value is there, or the caller goes through the Once of the static.
EpochDeref(c) ==
    /\ pc[c] = "idle"
    /\ pc' = [pc EXCEPT ![c] = IF epoch.once = "complete" THEN "read" ELSE "once"]
    /\ UNCHANGED <<clock, genVars, epochVars, confVars>>

\* a Once that lets every caller that finds no value run the initialiser
OnceUnclaimedOrRunning == epoch.once # "complete"

\* Once::call_once: the initialiser is still to be run, by nobody yet
OnceUnclaimed == epoch.once = "incomplete"

\* Once::call_once: the first caller claims the initialisation, a caller
\* that finds it done goes on to read, a caller that finds it running waits.
OnceEnter(c) ==
    /\ pc[c] = "once"
    /\ \/ /\ OnceUnclaimed
          /\ epoch' = [epoch EXCEPT !.once = "running"]
          /\ pc' = [pc EXCEPT ![c] = "init"]
       \/ /\ epoch.once = "complete"
          /\ epoch' = epoch
          /\ pc' = [pc EXCEPT ![c] = "read_first"]
    /\ UNCHANGED <<clock, genVars, seen, confVars>>

\* the initialiser: SystemTime::UNIX_EPOCH + Duration::from_secs(1_650_000_000)
EpochInit(c) ==
    /\ pc[c] = "init"
    /\ epoch' = [once |-> "complete", value |-> <<ELUDRIS_EPOCH>>,
                 inits |-> epoch.inits + 1]
    /\ pc' = [pc EXCEPT ![c] = "read_first"]
    /\ UNCHANGED <<clock, genVars, seen, confVars>>

\* the caller gets the reference and reads the value through it
EpochRead(c) ==
    /\ pc[c] \in {"read", "read_first"}
    /\ seen' = [seen EXCEPT ![c] = <<[at |-> clock, value |-> epoch.value[1],
                                       first |-> pc[c] = "read_first"]>>]
    /\ pc' = [pc EXCEPT ![c] = "idle"]
    /\ UNCHANGED <<clock, genVars, epoch, confVars>>

\* Concurrent callers reading the epoch, at any time of the process's life.
InitEpoch == InitWith(ClockValues, {}, {}, {<<69, 0, 0, 1>>})

NextEpoch ==
    \/ Tick(ClockValues)
    \/ \E c \in Callers :
          \/ EpochDeref(c)
          \/ OnceEnter(c)
          \/ EpochInit(c)
          \/ EpochRead(c)

SpecEpoch == InitEpoch /\ [][NextEpoch]_vars

\* A generator that is first called while the clock is still before the
\* epoch, then for a long run once the clock has passed it.
InitSkip == InitWith({At(-1, 999)}, {}, {}, {<<69, 0, 0, 1>>})

NextSkip ==
    \/ Tick({At(0, 0)})
    \/ /\ Earlier(clock, ELUDRIS_EPOCH) => panics < MaxSkips
       /\ GenerateId(SharedGen, MaxWrapCalls, WrapWindow)

SpecSkip == InitSkip /\ [][NextSkip]_vars

\* Two generators that share nothing, their instance ids handed to new():
\* ids that differ from bit 24 upwards only, or below it.
PairIds == {<<69, 0, 0, 0>>, <<69, 0, 0, 1>>, <<69, 0, 1, 0>>}

InitPair == InitWith({At(0, 0)}, {}, {}, PairIds)

NextPair ==
    \/ Tick(WrapClockValues)
    \/ \E g \in Generators : GenerateId(g, MaxCalls, Window)

SpecPair == InitPair /\ [][NextPair]_vars

-----------------------------------------------------------------------------
(* Vocabulary of the properties.                                           *)

Last == recent[Len(recent)]

\* kept and the latest result are two different calls, kept the earlier one
Pair == kept # <<>> /\ recent # <<>> /\ kept[1] # Last

\* bits 0..7, 0..15 and 32..63 of an ID
Low8(id) == id[1]

Low16(id) == id[1] + 256 * id[2]

TimeField(id) == SubSeq(id, 5, 8)

\* the elapsed time at a result, as the whole seconds and as the u128 millis
ElapsedSecs(r) == DurationSince(r.at, ELUDRIS_EPOCH).secs

ElapsedMillis(r) == AsMillis(DurationSince(r.at, ELUDRIS_EPOCH))

\* the 128-bit layout (timestamp << 64) | (instance_id << 16) | sequence
WideLayout(secs, instance_id, sequence) ==
    ToBytes(sequence, 2) \o Cast(instance_id, 6) \o ToBytes(secs, 8)

-----------------------------------------------------------------------------
(* C1: uniqueness of the IDs of one generator.                             *)

\* C1 as stated: two IDs of one generator are distinct as long as fewer than
\* 65536 IDs are requested within the same elapsed second.
C1_DistinctBelow65536PerSecond ==
    (/\ Pair
     /\ kept[1].gen = Last.gen
     /\ ElapsedSecs(kept[1]) = ElapsedSecs(Last)
     /\ TotalCalls < 65536)
    => kept[1].id # Last.id

\* C1 as amended: two IDs of one generator are distinct when at most 255
\* generate_id calls separate them, whatever the clock; and two IDs with the
\* same timestamp field have different sequence fields as long as the 8-bit
\* counter has not wrapped between them.
C1_DistinctWithin256Calls ==
    (Pair /\ kept[1].gen = Last.gen)
    => /\ Last.n - kept[1].n <= U8_MAX => kept[1].id # Last.id
       /\ (TimeField(kept[1].id) = TimeField(Last.id) /\ ~wrapped)
             => Low8(kept[1].id) # Low8(Last.id)

\* the first and the 256th ID of a run on one generator
C1_Witness ==
    /\ Pair
    /\ kept[1].gen = Last.gen
    /\ kept[1].n = 1
    /\ Last.n = U8_MAX + 1
    /\ TimeField(kept[1].id) = TimeField(Last.id)
    /\ kept[1].id # Last.id

-----------------------------------------------------------------------------
(* C2: callers sharing the generator behind the mutex.                     *)

\* C2 as stated: in every interleaving no two calls observe the same
\* pre-increment sequence value and all IDs issued are distinct, fewer than
\* 65536 being issued per elapsed second.
C2_NoTwoCallsSamePreIncrement ==
    (Pair /\ TotalCalls < 65536)
    => /\ kept[1].pre # Last.pre
       /\ kept[1].id # Last.id

\* C2 as amended: under the mutex every call finds the counter as the call
\* before it left it and returns the value it wrote itself, so that no two of
\* any 256 consecutive calls observe the same pre-increment value or return
\* the same ID.
C2_MutexSerialisesCalls ==
    /\ \A i \in 1..Len(recent) :
          recent[i].seq = NextSequence(recent[i].pre)
    /\ Pair => /\ Last.n > kept[1].n
               /\ Last.n - kept[1].n <= U8_MAX
                     => /\ kept[1].pre # Last.pre
                        /\ kept[1].id # Last.id

\* two callers hold their IDs at once, a third call apart by 255 was retained
C2_Witness ==
    /\ Pair
    /\ Last.n - kept[1].n = U8_MAX
    /\ kept[1].id # Last.id
    /\ \E c, d \in Callers : c # d /\ pc[c] = "io" /\ pc[d] = "io"

-----------------------------------------------------------------------------
(* C3: the value generate_id returns.                                      *)

\* C3 as stated: the result is the 128-bit value
\* (elapsed seconds << 64) | (instance_id << 16) | sequence.
C3_WideLayout ==
    \A i \in 1..Len(recent) :
       Cast(recent[i].id, 16)
          = WideLayout(ElapsedSecs(recent[i]), gens[recent[i].gen].instance_id,
                       recent[i].seq)

\* C3 as amended: the result is a 64-bit value; bits 0..7 hold the sequence
\* after the call's update, bits 8..31 the low 24 bits of instance_id, bits
\* 32..39 the low byte of the elapsed milliseconds or-ed with the top byte of
\* instance_id, bits 40..63 bits 8..31 of the elapsed milliseconds.
C3_CodeLayout ==
    \A i \in 1..Len(recent) :
       LET r == recent[i]
           inst == gens[r.gen].instance_id
           ms == ElapsedMillis(r)
       IN /\ Len(r.id) = 8
          /\ r.id[1] = r.seq
          /\ r.n = calls[r.gen] => r.id[1] = gens[r.gen].sequence
          /\ SubSeq(r.id, 2, 4) = SubSeq(inst, 1, 3)
          /\ r.id[5] = BitOr(ms[1], inst[4])
          /\ SubSeq(r.id, 6, 8) = SubSeq(ms, 2, 4)

\* an ID issued once the elapsed millis exceed 32 bits, by a generator whose
\* instance id exceeds 24 bits
C3_Witness ==
    /\ recent # <<>>
    /\ Last.at = At(4294967, 296)
    /\ gens[Last.gen].instance_id[4] # 0
    /\ Last.id[5] = gens[Last.gen].instance_id[4]

-----------------------------------------------------------------------------
(* C4: IDs of different elapsed seconds.                                   *)

\* C4 as stated: of two IDs issued in different elapsed seconds, by the same
\* or by different generators, the one issued later compares greater as an
\* unsigned integer.
C4_LaterSecondGreater ==
    (Pair /\ ElapsedSecs(kept[1]) < ElapsedSecs(Last))
    => Less(kept[1].id, Last.id)

-----------------------------------------------------------------------------
(* C5: order of the IDs of one generator under a clock that does not move  *)
(* backward.                                                               *)

\* C5 as stated: a issued before b by one generator: a <= b when they were
\* issued in different elapsed seconds, and with equal timestamp fields a's
\* sequence field is below b's unless the counter wrapped in between.
C5_OrderedUnderMonotoneClock ==
    (Pair /\ kept[1].gen = Last.gen)
    => /\ ElapsedSecs(kept[1]) # ElapsedSecs(Last) => LessEq(kept[1].id, Last.id)
       /\ (TimeField(kept[1].id) = TimeField(Last.id) /\ ~wrapped)
             => Low8(kept[1].id) < Low8(Last.id)

-----------------------------------------------------------------------------
(* C6: the Nth call on a fresh generator.                                  *)

\* C6 as stated: the Nth call (1 <= N < 65535) on a generator made by new()
\* returns an ID whose low 16 bits equal N.
C6_NthCallLow16 ==
    \A i \in 1..Len(recent) :
       (ctor[recent[i].gen].by_new /\ recent[i].n < 65535)
       => Low16(recent[i].id) = recent[i].n

\* C6 as amended: the Nth call (1 <= N <= 255) on a generator made by new()
\* returns an ID whose low 8 bits equal N.
C6_NthCallLow8 ==
    \A i \in 1..Len(recent) :
       (ctor[recent[i].gen].by_new /\ recent[i].n <= U8_MAX)
       => Low8(recent[i].id) = recent[i].n

\* the 255th call on a generator made by new()
C6_Witness ==
    /\ recent # <<>>
    /\ ctor[Last.gen].by_new
    /\ Last.n = U8_MAX
    /\ Low8(Last.id) = U8_MAX

-----------------------------------------------------------------------------
(* C7: three calls through the exhaustion of the counter.                  *)

\* three consecutive calls on one generator whose counter was one below its
\* maximum before the first
ThroughWrap ==
    /\ Len(recent) = 3
    /\ recent[2].gen = recent[1].gen /\ recent[3].gen = recent[1].gen
    /\ recent[2].n = recent[1].n + 1 /\ recent[3].n = recent[2].n + 1
    /\ recent[1].pre = U8_MAX - 1

\* C7 as stated: the counter is exhausted at 65535: the low 16 bits of the
\* three results are 65535, 0, 1.
C7_WrapLow16 ==
    ThroughWrap
    => <<Low16(recent[1].id), Low16(recent[2].id), Low16(recent[3].id)>> = <<65535, 0, 1>>

\* C7 as amended: the counter is exhausted at 255: from sequence 254 three
\* consecutive calls all return, and the low 8 bits of their results are
\* 255, 0, 1.
C7_WrapLow8 ==
    ThroughWrap
    => <<Low8(recent[1].id), Low8(recent[2].id), Low8(recent[3].id)>> = <<U8_MAX, 0, 1>>

C7_Witness ==
    /\ ThroughWrap
    /\ ctor[recent[1].gen].seq0 = U8_MAX - 1
    /\ recent[1].n = 1
    /\ Low8(recent[2].id) = 0

-----------------------------------------------------------------------------
(* C8: the low 8 bits follow the counter modulo 256.                       *)

\* C8: the k-th call on a generator returns an ID whose low 8 bits are its
\* initial sequence plus k, modulo 256, and the counter never leaves u8.
C8_Low8FollowsCounter ==
    /\ \A i \in 1..Len(recent) :
          Low8(recent[i].id) = (ctor[recent[i].gen].seq0 + recent[i].n) % (U8_MAX + 1)
    /\ \A g \in Generators : gens[g].sequence \in 0..U8_MAX

\* the 256th call on a generator made by new() returns low 8 bits 0
C8_Witness ==
    /\ recent # <<>>
    /\ ctor[Last.gen].by_new
    /\ Last.n = U8_MAX + 1
    /\ Low8(Last.id) = 0

-----------------------------------------------------------------------------
(* C9: the instance-id field.                                              *)

\* C9 as stated: (id >> 16) & 0xFFFFFFFFFFFF equals the instance_id given
\* to new(), whatever it was.
C9_InstanceField48 ==
    \A i \in 1..Len(recent) :
       And(Shr(recent[i].id, 16), <<255, 255, 255, 255, 255, 255, 0, 0>>)
          = Cast(gens[recent[i].gen].instance_id, 8)

\* C9 as amended: (id >> 8) & 0xFFFFFF equals instance_id & 0xFFFFFF, which
\* is the instance_id itself when that is below 2^24.
C9_InstanceField24 ==
    \A i \in 1..Len(recent) :
       LET inst == Cast(gens[recent[i].gen].instance_id, 8)
           field == And(Shr(recent[i].id, 8), <<255, 255, 255, 0, 0, 0, 0, 0>>)
       IN /\ field = And(inst, <<255, 255, 255, 0, 0, 0, 0, 0>>)
          /\ inst[4] = 0 => field = inst

\* an ID of a generator whose instance id is not below 2^24
C9_Witness ==
    /\ recent # <<>>
    /\ gens[Last.gen].instance_id[4] # 0
    /\ And(Shr(Last.id, 8), <<255, 255, 255, 0, 0, 0, 0, 0>>)
          # Cast(gens[Last.gen].instance_id, 8)

-----------------------------------------------------------------------------
(* C10: the fields of the IDs of a generator made from                     *)
(* generate_instance_id, through the wrap of the counter.                  *)

\* C10: (id & 0xFFFFFF00) >> 8 equals the instance id and bits 32..63 equal
\* the low 32 bits of the elapsed milliseconds, on every call, the calls
\* around the wrap of the counter included.
C10_FieldsSurviveWrap ==
    \A i \in 1..Len(recent) :
       ctor[recent[i].gen].derived
       => /\ Shr(And(recent[i].id, <<0, 255, 255, 255, 0, 0, 0, 0>>), 8)
                = Cast(gens[recent[i].gen].instance_id, 8)
          /\ TimeField(recent[i].id) = SubSeq(ElapsedMillis(recent[i]), 1, 4)

\* the calls before, at and after the wrap, on such a generator
C10_Witness ==
    /\ ThroughWrap
    /\ ctor[recent[1].gen].derived
    /\ <<recent[1].seq, recent[2].seq, recent[3].seq>> = <<U8_MAX, 0, 1>>

-----------------------------------------------------------------------------
(* C11: the timestamp field.                                               *)

\* C11 as stated, read with the layout and the unit of the code (the
\* timestamp above bit 32, in milliseconds; above bit 64 a u64 holds nothing):
\* the ID shifted right to its timestamp equals the whole elapsed time,
\* without truncation, for every elapsed time the clock can report.
C11_TimestampNotTruncated ==
    \A i \in 1..Len(recent) :
       Cast(Shr(recent[i].id, TIME_SHIFT + SEQ_SHIFT), 16) = ElapsedMillis(recent[i])

-----------------------------------------------------------------------------
(* C12: when sequence 0 is returned.                                       *)

\* the result of the call that preceded result i on the same generator, if
\* it is among the recent ones
Preceding(i) ==
    {j \in 1..Len(recent) :
        recent[j].gen = recent[i].gen /\ recent[j].n + 1 = recent[i].n}

\* C12 as stated: a result with sequence 0 comes from the call right after
\* the call that returned sequence 65535, and the first call on a generator
\* made by new() does not return sequence 0.
C12_ZeroOnlyAfter65535 ==
    \A i \in 1..Len(recent) :
       /\ recent[i].seq = 0
             => /\ recent[i].n > 1
                /\ \A j \in Preceding(i) : recent[j].seq = 65535
       /\ (ctor[recent[i].gen].by_new /\ recent[i].n = 1) => recent[i].seq # 0

\* C12 as amended: a result whose low 8 bits are 0 comes from a call that
\* found the counter at 255, which is never the first call on the generator;
\* the call before it, when it returned, returned low 8 bits 255; and the
\* first call on a generator made by new() returns low 8 bits 1.
C12_ZeroOnlyAfter255 ==
    \A i \in 1..Len(recent) :
       /\ Low8(recent[i].id) = 0
             => /\ recent[i].pre = U8_MAX
                /\ recent[i].n > 1
                /\ \A j \in Preceding(i) : Low8(recent[j].id) = U8_MAX
       /\ (ctor[recent[i].gen].by_new /\ recent[i].n = 1) => Low8(recent[i].id) = 1

\* a result with low 8 bits 0, its predecessor at hand
C12_Witness ==
    \E i \in 1..Len(recent) :
       /\ Low8(recent[i].id) = 0
       /\ Preceding(i) # {}
       /\ recent[i].n = 2

-----------------------------------------------------------------------------
(* C13: the IDs of two independent generators.                             *)

\* bits 0..23 of an instance id
Low24(instance_id) == SubSeq(instance_id, 1, 3)

\* C13 as stated: two generators constructed with distinct instance ids never
\* return the same ID, for any interleaving of their calls and any clock.
C13_DistinctInstanceIdsDistinctIds ==
    (/\ Pair
     /\ kept[1].gen # Last.gen
     /\ ctor[kept[1].gen].given # ctor[Last.gen].given)
    => kept[1].id # Last.id

\* C13 as amended: two generators constructed with instance ids that differ
\* in their low 24 bits never return the same ID, for any interleaving of
\* their calls and any clock; the two IDs differ in their bits 8..31.
C13_DistinctLow24DistinctIds ==
    (/\ Pair
     /\ kept[1].gen # Last.gen
     /\ Low24(ctor[kept[1].gen].given) # Low24(ctor[Last.gen].given))
    => /\ kept[1].id # Last.id
       /\ SubSeq(kept[1].id, 2, 4) # SubSeq(Last.id, 2, 4)

\* two generators whose ids differ below bit 24 have each returned an ID at
\* the same clock reading with the same sequence
C13_Witness ==
    /\ Pair
    /\ kept[1].gen # Last.gen
    /\ Low24(ctor[kept[1].gen].given) # Low24(ctor[Last.gen].given)
    /\ kept[1].at = Last.at
    /\ kept[1].seq = Last.seq

-----------------------------------------------------------------------------
(* C14: the range of the derived instance id.                              *)

\* the derivations that returned a value
Returning == {i \in 1..Len(derivations) : derivations[i].out.ok}

\* 2^48 as a u64
TwoTo48 == <<0, 0, 0, 0, 0, 0, 1, 0>>

\* C14: every value generate_instance_id returns, at any clock reading at or
\* after the epoch, is strictly less than 2^48.
C14_DerivedBelowTwoTo48 ==
    \A i \in Returning : Less(Cast(derivations[i].out.value, 8), TwoTo48)

\* a value was derived with 2^32 - 1 ms elapsed, the largest millis that
\* fit the u32 the code casts them to
C14_Witness ==
    \E i \in Returning : derivations[i].at = At(4294967, 295)

-----------------------------------------------------------------------------
(* C15: what the derived instance id is made of.                           *)

\* the low 16 bits of the millis elapsed at clock reading t, on the integers
Low16OfMillis(t) ==
    (((t.secs - EPOCH_SECS) % 65536) * MILLIS_PER_SEC + t.ms) % 65536

\* C15 as stated: the derived value is the elapsed seconds masked to their
\* low 48 bits, whatever the name, so that two derivations within the same
\* clock second return the same value.
C15_SecondsMasked48 ==
    /\ \A i \in Returning :
          Cast(derivations[i].out.value, 8)
             = And(ToBytes(derivations[i].at.secs - EPOCH_SECS, 8),
                   <<255, 255, 255, 255, 255, 255, 0, 0>>)
    /\ \A i, j \in Returning :
          derivations[i].at.secs = derivations[j].at.secs
             => derivations[i].out.value = derivations[j].out.value

\* C15 as amended: the derivation takes the instance name and the clock; its
\* value is the low 16 bits of the elapsed milliseconds, shifted left by 8,
\* or-ed with the first byte of the name. Two derivations whose names start
\* with the same byte at readings whose elapsed milliseconds agree modulo
\* 65536 return the same value; names with different first bytes never do.
C15_MillisLow16AndNameByte ==
    /\ \A i \in Returning :
          LET d == derivations[i]
              m == Low16OfMillis(d.at)
          IN d.out.value = <<d.name[1], m % 256, m \div 256, 0>>
    /\ \A i, j \in Returning :
          LET d == derivations[i]
              e == derivations[j]
          IN /\ (d.name[1] = e.name[1] /\ Low16OfMillis(d.at) = Low16OfMillis(e.at))
                   => d.out.value = e.out.value
             /\ d.name[1] # e.name[1] => d.out.value # e.out.value

\* two derivations 2^32 ms apart with names of the same first byte, and two
\* at one clock reading with names of different first bytes
C15_Witness ==
    /\ \E i, j \in Returning :
          /\ derivations[i].at # derivations[j].at
          /\ derivations[i].at.ms # derivations[j].at.ms
          /\ derivations[i].name[1] = derivations[j].name[1]
          /\ derivations[i].out.value = derivations[j].out.value
    /\ \E i, j \in Returning :
          /\ derivations[i].at = derivations[j].at
          /\ derivations[i].name[1] # derivations[j].name[1]

-----------------------------------------------------------------------------
(* C16: the low 8 bits of the derived instance id.                         *)

\* C16: for every non-empty name and every clock reading the derivation
\* returns at, the low 8 bits of the value are the first byte of the name.
C16_Low8IsFirstByte ==
    \A i \in 1..Len(derivations) :
       LET d == derivations[i]
       IN /\ d.out.ok => (d.name # <<>> /\ d.out.value[1] = d.name[1])
          /\ (d.name # <<>> /\ ~Earlier(d.at, ELUDRIS_EPOCH)) => d.out.ok

\* values derived from "WooChat" with elapsed millis whose low byte is not 0,
\* and from a name that starts with a byte above 127
C16_Witness ==
    /\ \E i \in Returning :
          derivations[i].name = WooChat /\ derivations[i].at = At(4294967, 295)
    /\ \E i \in Returning : derivations[i].name[1] > 127

-----------------------------------------------------------------------------
(* C17: what new() returns.                                                *)

\* C17: a generator that new(v) returned and that has not been used yet has
\* sequence 0 and instance_id v itself, for every v, also one of 2^24 or
\* more (new has no failing path: it is a total operator).
C17_NewKeepsInstanceId ==
    \A g \in Generators :
       (ctor[g].by_new /\ calls[g] = 0)
          => gens[g] = [instance_id |-> ctor[g].given, sequence |-> 0]

\* new() was given the largest u32, and was given a derived value
C17_Witness ==
    /\ ctor[SharedGen].given \in {<<255, 255, 255, 255>>} \cup
                                 {derivations[i].out.value : i \in Returning}
    /\ ctor[SharedGen].given # <<69, 0, 0, 1>>
    /\ calls[SharedGen] = 0

-----------------------------------------------------------------------------
(* C18: generate_id leaves instance_id alone.                              *)

\* C18: after any number of generate_id calls, returned or panicked, the
\* generator's instance_id is the value given at construction.
C18_InstanceIdNeverMutated ==
    \A g \in Generators : gens[g].instance_id = ctor[g].given

\* a generator given an instance id of 2^24 or more has been called twice
C18_Witness ==
    \E g \in Generators :
       /\ calls[g] >= 2
       /\ ctor[g].given = <<255, 255, 255, 255>>
       /\ gens[g].sequence # ctor[g].seq0

-----------------------------------------------------------------------------
(* C19: the mutex is not held across the I/O of File::create.              *)

\* C19: a File::create that has reached its file-system and database I/O
\* does not hold the generator's mutex.
C19_LockReleasedBeforeIo ==
    \A c \in Callers : pc[c] = "io" => lock # c

\* one File::create is inside generate_id, holding the mutex, while the
\* other is still doing its I/O
C19_Witness ==
    \E c, d \in Callers :
       /\ pc[c] = "io"
       /\ pc[d] = "sequenced"
       /\ lock = d

-----------------------------------------------------------------------------
(* C20: a clock before the epoch.                                          *)

BeforeEpoch(t) == Earlier(t, ELUDRIS_EPOCH)

\* a step that is a generate_instance_id or a generate_id call panics and
\* hands nothing to the caller
PanicsOnce ==
    /\ panics' = panics + 1
    /\ recent' = recent
    /\ kept' = kept
    /\ derivations' # derivations => ~derivations'[Len(derivations')].out.ok

StepFromBeforeEpoch ==
    (BeforeEpoch(clock) /\ (derivations' # derivations \/ calls' # calls)) => PanicsOnce

\* no value handed to a caller was made at a clock reading before the epoch
NothingFromBeforeEpoch ==
    /\ \A i \in Returning : ~BeforeEpoch(derivations[i].at)
    /\ \A i \in 1..Len(recent) : ~BeforeEpoch(recent[i].at)
    /\ (kept # <<>> => ~BeforeEpoch(kept[1].at))

\* C20: no derivation and no generate_id call returns a value at a clock
\* reading before the epoch; each such call panics, once, and nothing is
\* handed to the caller.
C20_PanicsBeforeEpoch == []NothingFromBeforeEpoch /\ [][StepFromBeforeEpoch]_vars

\* with the clock before the epoch, a derivation from a non-empty name and a
\* generate_id call have both panicked
C20_Witness ==
    /\ BeforeEpoch(clock)
    /\ panics = 2
    /\ Len(derivations) = 1
    /\ derivations[1].name = WooChat
    /\ calls[SharedGen] = 1
    /\ recent = <<>>

-----------------------------------------------------------------------------
(* C21: the epoch is one value, initialised once.                          *)

\* C21: the initialiser of ELUDRIS_EPOCH has run at most once, also when
\* several callers found the static uninitialised; the value it left and
\* every value a caller has read through the static, at any time, is the
\* Unix epoch + 1,650,000,000 seconds.
C21_EpochInitialisedOnce ==
    /\ epoch.inits <= 1
    /\ epoch.once = "complete" <=> epoch.inits = 1
    /\ \A i \in 1..Len(epoch.value) : epoch.value[i] = [secs |-> 1650000000, ms |-> 0]
    /\ \A c \in Callers :
          \A i \in 1..Len(seen[c]) : seen[c][i].value = [secs |-> 1650000000, ms |-> 0]

\* two callers found the static uninitialised and both have read it since,
\* at different times
C21_Witness ==
    \E c, d \in Callers :
       /\ c # d
       /\ seen[c] # <<>> /\ seen[d] # <<>>
       /\ seen[c][1].first /\ seen[d][1].first
       /\ seen[c][1].at # seen[d][1].at
       /\ epoch.inits = 1

-----------------------------------------------------------------------------
(* C26: the timestamp field and the instance id.                           *)

\* C26 as stated: two generators, whatever instance ids new() was given,
\* called at the same clock reading return IDs with the same timestamp field
\* (bits 32..63 of the ID).
C26_TimestampIgnoresInstanceId ==
    (/\ Pair
     /\ kept[1].gen # Last.gen
     /\ kept[1].at = Last.at)
    => TimeField(kept[1].id) = TimeField(Last.id)

\* what holds instead: the timestamp fields agree when the instance ids agree
\* from bit 24 upwards, and they agree above their low 8 bits in any case
C26_TimestampAboveInstanceBits ==
    (/\ Pair
     /\ kept[1].gen # Last.gen
     /\ kept[1].at = Last.at)
    => /\ SubSeq(kept[1].id, 6, 8) = SubSeq(Last.id, 6, 8)
       /\ ctor[kept[1].gen].given[4] = ctor[Last.gen].given[4]
             => TimeField(kept[1].id) = TimeField(Last.id)

-----------------------------------------------------------------------------
(* C27: the sequence value of a call that panics.                          *)

\* the value the counter takes in the call that panicked last
LostSequence == (lost[1].pre + 1) % (U8_MAX + 1)

\* the results returned by the generator of that call after it
AfterLost ==
    {i \in 1..Len(recent) : recent[i].gen = lost[1].gen /\ recent[i].n > lost[1].n}

\* C27 as stated: a call that panics at the clock read returns no ID and
\* leaves the counter advanced by one; the successful calls that follow on the
\* same generator skip that sequence value and never return it.
C27_LostSequenceNeverReused ==
    lost # <<>>
    => /\ calls[lost[1].gen] = lost[1].n
             => gens[lost[1].gen].sequence = LostSequence
       /\ \A i \in AfterLost : Low8(recent[i].id) # LostSequence

\* C27 as amended: a call that panics at the clock read returns no ID and
\* leaves the counter advanced by one; the next successful call on the same
\* generator returns the sequence value after it, and none of the 255 calls
\* that follow the panicked one returns its value: the call 256 later does.
C27_LostSequenceSkippedUntilWrap ==
    lost # <<>>
    => /\ \A i \in 1..Len(recent) :
             ~(recent[i].gen = lost[1].gen /\ recent[i].n = lost[1].n)
       /\ calls[lost[1].gen] = lost[1].n
             => gens[lost[1].gen].sequence = LostSequence
       /\ \A i \in AfterLost :
             /\ recent[i].n = lost[1].n + 1
                   => Low8(recent[i].id) = (LostSequence + 1) % (U8_MAX + 1)
             /\ recent[i].n - lost[1].n <= U8_MAX => Low8(recent[i].id) # LostSequence
             /\ recent[i].n - lost[1].n = U8_MAX + 1 => Low8(recent[i].id) = LostSequence

\* the call 256 after one that panicked has returned, with the sequence
\* value of the panicked call
C27_Witness ==
    /\ lost # <<>>
    /\ recent # <<>>
    /\ Last.gen = lost[1].gen
    /\ Last.n - lost[1].n = U8_MAX + 1

-----------------------------------------------------------------------------
(* C28: the derived instance id fits the instance field.                   *)

\* 2^24 as a u32
TwoTo24 == <<0, 0, 0, 1>>

\* C28: from a non-empty name, at a clock reading at or after the epoch,
\* generate_instance_id returns a value strictly below 2^24; the IDs of a
\* generator made from such a value carry it whole in their bits 8..31 and
\* nothing of it in their timestamp field.
C28_DerivedFitsInstanceField ==
    /\ \A i \in 1..Len(derivations) :
          LET d == derivations[i]
          IN (d.name # <<>> /\ ~BeforeEpoch(d.at))
                => (d.out.ok /\ Less(d.out.value, TwoTo24))
    /\ \A i \in 1..Len(recent) :
          LET r == recent[i]
          IN ctor[r.gen].derived
                => /\ Shr(And(r.id, <<0, 255, 255, 255, 0, 0, 0, 0>>), SEQ_SHIFT)
                         = Cast(ctor[r.gen].given, 8)
                   /\ TimeField(r.id) = Cast(ElapsedMillis(r), 4)

\* a generator made from a value derived at 2^32 - 1 ms, where all 16 bits the
\* derivation keeps of the millis are set, has returned an ID
C28_Witness ==
    /\ recent # <<>>
    /\ ctor[Last.gen].derived
    /\ \E i \in Returning :
          /\ derivations[i].at = At(4294967, 295)
          /\ derivations[i].out.value = ctor[Last.gen].given

-----------------------------------------------------------------------------
(* C22..C25: Conf::validate and the default Conf.                          *)

\* validate has been called on conf as it is now
Judged == verdict # <<>> /\ verdict[1].call = "validate"

\* The parts of a configuration, each valid on its own terms.
DescriptionFine(c) ==
    c.description = <<>> \/ (Len(c.description[1]) >= 1 /\ Len(c.description[1]) <= 2048)

MessageLimitFine(c) == c.oprish.message_limit >= 1024

LimitsFine(c) == \A b \in Buckets : Bucket(c, b).limit >= 1

UrlsFine(c) ==
    \A u \in {c.oprish.url, c.pandemonium.url, c.effis.url} :
       u = <<>> \/ u[1] \in {"http://avalid.url", "wss://foo.bar"}

\* the file sizes, which only a build with the feature "http" checks
SizesFine(c, http) ==
    http => \A size \in {c.effis.file_size, c.effis.attachment_file_size,
                         c.effis.ratelimits.assets.file_size_limit,
                         c.effis.ratelimits.attachments.file_size_limit} :
               size \in {"10MB", "20MB", "30MB", "100MB", "500MB"}

\* C22: validate returns an error whenever one of the seven rate-limit
\* buckets has limit 0, and Ok when every limit is at least 1 (a limit just
\* set to 1 included) and the rest of the configuration is valid.
C22_ZeroLimitRejected ==
    Judged
    => /\ (\E b \in Buckets : Bucket(conf, b).limit = 0) => ~verdict[1].result.ok
       /\ (/\ LimitsFine(conf)
           /\ DescriptionFine(conf)
           /\ MessageLimitFine(conf)
           /\ UrlsFine(conf)
           /\ SizesFine(conf, verdict[1].http)) => verdict[1].result.ok

\* after two assignments, validate has accepted a Conf with a limit of 1
C22_Witness ==
    /\ Judged
    /\ verdict[1].result.ok
    /\ verdict[1].http
    /\ edits = 2
    /\ \E b \in Buckets : Bucket(conf, b).limit = 1

C24_MessageLimitFloor ==
    Judged
    => /\ conf.oprish.message_limit < 1024 => ~verdict[1].result.ok
       /\ (/\ conf.oprish.message_limit = 1024
           /\ DescriptionFine(conf)
           /\ LimitsFine(conf)
           /\ UrlsFine(conf)
           /\ SizesFine(conf, verdict[1].http)) => verdict[1].result.ok

\* validate has accepted a Conf from from_name whose message_limit was set to
\* exactly 1024
C24_Witness ==
    /\ Judged
    /\ verdict[1].result.ok
    /\ origin.by = "from_name"
    /\ edits >= 1
    /\ conf.oprish.message_limit = 1024

\* conf is what from_str made of a document that holds instance_name only
FromNameOnly ==
    /\ origin.by = "from_str"
    /\ DOMAIN origin.doc = {"instance_name"}
    /\ edits = 0

\* C25: the Conf deserialised from a document that holds only instance_name
\* equals the one Conf::from_name returns for that name, in either build, and
\* validate accepts it.
C25_DefaultsAgree ==
    FromNameOnly
    => /\ \A http \in BOOLEAN :
             from_name(origin.doc.instance_name, http) = [ok |-> TRUE, value |-> conf]
       /\ Judged => verdict[1].result.ok

\* the document of tests::default_conf was deserialised and the Conf validated
\* in a build with the feature "http"
C25_Witness ==
    /\ FromNameOnly
    /\ origin.doc.instance_name = TestInstance
    /\ Judged
    /\ verdict[1].http

====
